---- MODULE Spec2Model ----
(***************************************************************************)
(* Model of app.py (Reddit Topic Explorer): the keyword normaliser, the    *)
(* post filters, the aggregation loop of get_reddit_posts and the part of  *)
(* the Streamlit script that validates the inputs and triggers the fetch.  *)
(*                                                                         *)
(* Text (keywords, titles, bodies, URLs) is a sequence of one-character    *)
(* strings, so that lower(), strip(), replace() and the substring test     *)
(* `in` are computed as Python computes them.                              *)
(***************************************************************************)
EXTENDS Integers, Sequences, FiniteSets, TLC

\* ---------------------------------------------------------------- bounds

\* Longest input string given to normalize_keyword.
MaxLen == 3
\* Ticks (distinct instants) per calendar day in the model's clock.
TicksPerDay == 2
\* Largest comment count of a candidate post.
MaxComments == 2
\* Largest threshold entered in the "Number of Comments" field.
MaxThreshold == 1
\* Most items (posts or a raised error) the search API delivers in one
\* multi-subreddit scenario.
MaxItems == 3

\* ------------------------------------------------------- program constants

\* len(selected_subreddits) > 5
MaxSubs == 5
\* len(posts) >= 100
Cap == 100
\* search(..., limit=300, ...)
FetchLimit == 300

\* ------------------------------------------------------------------ text

\* str.lower() on one character of the model's alphabet.
LowerChar(c) ==
  CASE c = "A" -> "a"
    [] c = "B" -> "b"
    [] OTHER -> c

\* str.lower()
Lower(s) == [i \in 1..Len(s) |-> LowerChar(s[i])]

RECURSIVE LStrip(_)
LStrip(s) == IF s # <<>> /\ Head(s) = " " THEN LStrip(Tail(s)) ELSE s

RECURSIVE RStrip(_)
RStrip(s) ==
  IF s # <<>> /\ s[Len(s)] = " " THEN RStrip(SubSeq(s, 1, Len(s) - 1)) ELSE s

\* str.strip()
Strip(s) == RStrip(LStrip(s))

\* str.replace(old, new) for a one-character old and a text new
RECURSIVE Replace(_, _, _)
Replace(s, old, new) ==
  IF s = <<>> THEN <<>>
  ELSE (IF Head(s) = old THEN new ELSE <<Head(s)>>) \o Replace(Tail(s), old, new)

\* `sub in text`
Contains(sub, text) ==
  \E i \in 0..(Len(text) - Len(sub)) : SubSeq(text, i + 1, i + Len(sub)) = sub

\* `c in word` for a character c
HasChar(c, word) == \E i \in 1..Len(word) : word[i] = c

\* -------------------------------------------------------- normalize_keyword

\* normalize_keyword without variations.add(word)
normalize_keyword_noadd(word) ==
  LET w == Strip(Lower(word)) IN
  IF w = <<>> THEN {}
  ELSE IF HasChar(" ", w) THEN {Replace(w, " ", <<"-">>), Replace(w, " ", <<>>)}
  ELSE IF HasChar("-", w) THEN {Replace(w, "-", <<" ">>), Replace(w, "-", <<>>)}
  ELSE {w \o <<"s">>, w \o <<"e", "s">>}

normalize_keyword(word) ==
  LET w == Strip(Lower(word)) IN
  IF w = <<>> THEN {}
  ELSE {w} \cup
       (IF HasChar(" ", w) THEN {Replace(w, " ", <<"-">>), Replace(w, " ", <<>>)}
        ELSE IF HasChar("-", w) THEN {Replace(w, "-", <<" ">>), Replace(w, "-", <<>>)}
        ELSE {w \o <<"s">>, w \o <<"e", "s">>})

\* ------------------------------------------------------------ the filters

\* 'reddit.com'
RedditCom == <<"r", "e", "d", "d", "i", "t", ".", "c", "o", "m">>

\* is_internal_link
is_internal_link(post) ==
  (~post.is_self /\ Contains(RedditCom, post.url)) \/ post.is_self

\* match_keyword_variants
match_keyword_variants(text, kws) ==
  \E kw \in kws : Contains(kw, Lower(text))

\* datetime.utcfromtimestamp: an instant as (calendar day, time of day)
utcfromtimestamp(t) == [date |-> t \div TicksPerDay, time |-> t % TicksPerDay]

\* datetime.combine(d, datetime.min.time())
combine_min(d) == [date |-> d, time |-> 0]

\* datetime.combine(d, datetime.max.time())
combine_max(d) == [date |-> d, time |-> TicksPerDay - 1]

\* datetime <= datetime
DtLeq(a, b) == a.date < b.date \/ (a.date = b.date /\ a.time <= b.time)

\* start_date <= created <= end_date
in_date_range(created, start, end) == DtLeq(start, created) /\ DtLeq(created, end)

\* (submission.title or "") + " " + (submission.selftext or "")
combined_text(submission) == submission.title \o <<" ">> \o submission.selftext

\* The comment filter with ">=" compared as ">".
comment_pass_strict(cf, num_comments) ==
  IF cf = <<>> THEN TRUE
  ELSE LET operator == cf[1]
           value == cf[2]
       IN /\ ~(operator = "=" /\ ~(num_comments = value))
          /\ ~(operator = ">" /\ ~(num_comments > value))
          /\ ~(operator = ">=" /\ ~(num_comments > value))
          /\ ~(operator = "<" /\ ~(num_comments < value))
          /\ ~(operator = "<=" /\ ~(num_comments <= value))

\* if comment_filter: ... the five `continue` lines; TRUE when none is taken
comment_pass(cf, num_comments) ==
  IF cf = <<>> THEN TRUE
  ELSE LET operator == cf[1]
           value == cf[2]
       IN /\ ~(operator = "=" /\ ~(num_comments = value))
          /\ ~(operator = ">" /\ ~(num_comments > value))
          /\ ~(operator = ">=" /\ ~(num_comments >= value))
          /\ ~(operator = "<" /\ ~(num_comments < value))
          /\ ~(operator = "<=" /\ ~(num_comments <= value))

\* "https://reddit.com"
PermalinkBase == "https://reddit.com"

PostFields ==
  {"Title", "Body", "Score", "UpvoteRatio", "Comments", "Subreddit", "Permalink",
   "Created"}

\* The appended dict with a sentiment label added.
make_post_sentiment(submission, created) ==
  [Title |-> submission.title,
   Body |-> IF submission.is_self THEN submission.selftext ELSE <<>>,
   Score |-> submission.score,
   UpvoteRatio |-> submission.upvote_ratio,
   Comments |-> submission.num_comments,
   Subreddit |-> submission.subreddit,
   Permalink |-> [base |-> PermalinkBase, path |-> submission.permalink],
   Created |-> created.date,
   Sentiment |-> "Neutral"]

\* The dict of posts.append({...})
make_post(submission, created) ==
  [Title |-> submission.title,
   Body |-> IF submission.is_self THEN submission.selftext ELSE <<>>,
   Score |-> submission.score,
   UpvoteRatio |-> submission.upvote_ratio,
   Comments |-> submission.num_comments,
   Subreddit |-> submission.subreddit,
   Permalink |-> [base |-> PermalinkBase, path |-> submission.permalink],
   Created |-> created.date]

\* ------------------------------------------------------------- the inputs

\* A missing (None) created_utc of a submission.
None == -1

UrlSelf == <<"h", "t", "t", "p", "s", ":", "/", "/", "r", "e", "d", "d", "i", "t", ".", "c", "o", "m", "/", "p">>
UrlExternal == <<"h", "t", "t", "p", "s", ":", "/", "/", "x", ".", "i", "o", "/", "a">>
UrlLookalike == <<"h", "t", "t", "p", "s", ":", "/", "/", "x", ".", "i", "o", "/", "r", "e", "d", "d", "i", "t", ".", "c", "o", "m">>

\* Titles and bodies: one holding the keyword (in upper case), one not.
TitleHit == <<"A">>
TitleMiss == <<"x">>
BodyHit == <<"a">>

\* Pieces of keyword_input.split(","): a keyword to be trimmed and lower-cased,
\* and a blank piece.
PieceKeyword == <<" ", "A">>
PieceBlank == <<" ">>

Days == 1..2

\* Instants around the boundaries of the days 1 and 2, and None.
CreatedValues ==
  {TicksPerDay - 1, TicksPerDay, 2 * TicksPerDay - 1, 3 * TicksPerDay - 1,
   3 * TicksPerDay, None}

Operators == {"", "=", ">", ">=", "<", "<="}

SubNames == <<"s1", "s2", "s3", "s4", "s5", "s6">>

\* A submission that passes every filter under the default criteria.
Good(id) ==
  [title |-> TitleHit, selftext |-> <<>>, is_self |-> TRUE, url |-> UrlSelf,
   score |-> 1, upvote_ratio |-> 1, num_comments |-> 1, subreddit |-> "s1",
   permalink |-> id, created_utc |-> 2 * TicksPerDay]

\* A submission whose created_utc is missing.
Malformed == [Good(9) EXCEPT !.created_utc = None]

\* The submissions of the filter scenarios.
Submissions ==
  {[Good(1) EXCEPT !.title = ti, !.selftext = st, !.is_self = lk[1], !.url = lk[2],
                   !.num_comments = nc, !.created_utc = cr] :
     ti \in {TitleHit, TitleMiss}, st \in {<<>>, BodyHit},
     lk \in {<<TRUE, UrlSelf>>, <<FALSE, UrlSelf>>, <<FALSE, UrlExternal>>,
             <<FALSE, UrlLookalike>>},
     nc \in 0..MaxComments, cr \in CreatedValues}

\* What a listing delivers: n submissions in a row (permalinks id, id+1, ...),
\* or an exception raised by the API at that point of the enumeration.
PostRun(c, n) == [kind |-> "post", c |-> c, n |-> n]
ErrorItem == [kind |-> "error", c |-> Good(0), n |-> 1]

RECURSIVE RunsLen(_)
RunsLen(resp) == IF resp = <<>> THEN 0 ELSE resp[1].n + RunsLen(Tail(resp))

RECURSIVE ItemAt(_, _)
ItemAt(resp, j) ==
  IF j <= resp[1].n
  THEN [kind |-> resp[1].kind,
        c |-> [resp[1].c EXCEPT !.permalink = resp[1].c.permalink + (j - 1)]]
  ELSE ItemAt(Tail(resp), j - resp[1].n)

\* -------------------------------------------------------------- the state

VARIABLES
  \* inputs of one run of the script
  keyword_input,        \* the pieces of keyword_input.split(",")
  sub_input,            \* the non-blank names of sub_input.split(",")
  start_date, end_date, \* the two st.date_input days
  comment_operator, comment_value,
  clicked,              \* st.button("Fetch Posts")
  api,                  \* api[i]: what the i-th search of the run delivers
  \* the script
  pc,
  keywords, selected_subreddits, comment_filter,
  errors,               \* st.error messages
  warnings,             \* st.warning messages of get_reddit_posts, by subreddit
  \* get_reddit_posts
  posts, normalized_keywords, target_subreddits,
  si,                   \* position of `sub` in target_subreddits
  k,                    \* position of `submission` in search_results
  queries,              \* the searches issued, by subreddit
  origin,               \* origin[j]: <<si, k>> of the submission behind posts[j]
  raised,               \* the exceptions raised: [si, k, kind]
  \* a call of normalize_keyword on its own
  word, variations, npc

inputs ==
  <<keyword_input, sub_input, start_date, end_date, comment_operator,
    comment_value, clicked, api>>

normvars == <<word, variations, npc>>

vars ==
  <<keyword_input, sub_input, start_date, end_date, comment_operator,
    comment_value, clicked, api, pc, keywords, selected_subreddits,
    comment_filter, errors, warnings, posts, normalized_keywords,
    target_subreddits, si, k, queries, origin, raised, word, variations, npc>>

\* The state a run of the script starts in, for given inputs.
Start(ki, subs, sd, ed, op, val, cl, ap) ==
  /\ keyword_input = ki
  /\ sub_input = subs
  /\ start_date = sd
  /\ end_date = ed
  /\ comment_operator = op
  /\ comment_value = val
  /\ clicked = cl
  /\ api = ap
  /\ pc = "script"
  /\ keywords = <<>>
  /\ selected_subreddits = <<>>
  /\ comment_filter = <<>>
  /\ errors = <<>>
  /\ warnings = <<>>
  /\ posts = <<>>
  /\ normalized_keywords = {}
  /\ target_subreddits = <<>>
  /\ si = 0
  /\ k = 0
  /\ queries = <<>>
  /\ origin = <<>>
  /\ raised = <<>>

\* One search of all of Reddit for one submission, under every combination of
\* date range and comment filter.
InitFilter ==
  \E c \in Submissions, sd \in Days, ed \in Days, op \in Operators,
     val \in 0..MaxThreshold :
    Start(<<PieceKeyword>>, <<>>, sd, ed, op, val, TRUE, << <<PostRun(c, 1)>> >>)

\* The items the API delivers in a multi-subreddit scenario: a passing
\* submission (always the same permalink), a malformed one, an error.
ItemKinds == {PostRun(Good(1), 1), PostRun(Malformed, 1), ErrorItem}

ItemSeqs == UNION {[1..n -> ItemKinds] : n \in 0..MaxItems}

\* The items placed at subreddit s (place is non-decreasing).
Slice(items, place, s) ==
  LET idx == {i \in 1..Len(items) : place[i] = s} IN
  IF idx = {} THEN <<>>
  ELSE SubSeq(items, CHOOSE i \in idx : \A j \in idx : i <= j,
                     CHOOSE i \in idx : \A j \in idx : i >= j)

\* 0 to MaxSubs + 1 subreddits (none: "all"), the items spread over them in
\* order.
InitErrors ==
  \E n \in 0..(MaxSubs + 1), items \in ItemSeqs :
    \E place \in [1..Len(items) -> 1..(IF n = 0 THEN 1 ELSE n)] :
      /\ \A i \in 1..(Len(items) - 1) : place[i] <= place[i + 1]
      /\ Start(<<PieceKeyword>>, SubSeq(SubNames, 1, n), 1, 2, "", 0, TRUE,
               [s \in 1..(IF n = 0 THEN 1 ELSE n) |-> Slice(items, place, s)])

\* Listings around the cap: per subreddit an error, or 1, Cap - 1, Cap or
\* Cap + 1 passing submissions with permalinks of their own.
CapListings(s) ==
  {<<ErrorItem>>} \cup
  {<<PostRun(Good((s - 1) * FetchLimit + 1), n)>> : n \in {1, Cap - 1, Cap, Cap + 1}}

InitCap ==
  \E n \in 1..2 :
    \E ap \in [1..n -> UNION {CapListings(s) : s \in 1..n}] :
      /\ \A s \in 1..n : ap[s] \in CapListings(s)
      /\ Start(<<PieceKeyword>>, SubSeq(SubNames, 1, n), 1, 2, "", 0, TRUE, ap)

\* The validation of the inputs: 0 to MaxSubs + 1 subreddits, keyword lists
\* with and without a keyword, every date range, the button pressed or not.
InitValidate ==
  \E n \in 0..(MaxSubs + 1), sd \in Days, ed \in Days, cl \in BOOLEAN,
     ki \in {<<>>, <<PieceBlank>>, <<PieceKeyword>>, <<PieceBlank, PieceKeyword>>} :
    Start(ki, SubSeq(SubNames, 1, n), sd, ed, "", 0, cl,
          [s \in 1..(MaxSubs + 1) |-> <<PostRun(Good(s), 1)>>])

Init ==
  /\ InitFilter \/ InitErrors \/ InitCap \/ InitValidate
  /\ word = <<>>
  /\ variations = {}
  /\ npc = "off"

\* ------------------------------------------------------------- the script

\* keywords = [kw.strip().lower() for kw in keyword_input.split(",") if kw.strip()]
KeywordsOf(pieces) ==
  LET kept == SelectSeq(pieces, LAMBDA kw : Strip(kw) # <<>>) IN
  [i \in 1..Len(kept) |-> Lower(Strip(kept[i]))]

\* The subreddit list passed on unchanged, however long.
NoTruncate(subs) == subs

\* selected_subreddits[:5] when len(selected_subreddits) > 5
Truncate(subs) == IF Len(subs) > MaxSubs THEN SubSeq(subs, 1, MaxSubs) ELSE subs

\* The script down to the button: keywords, selected_subreddits, comment_filter.
Script ==
  /\ pc = "script"
  /\ keywords' = KeywordsOf(keyword_input)
  /\ selected_subreddits' = Truncate(sub_input)
  /\ errors' = IF Len(sub_input) > MaxSubs
               THEN Append(errors, "You can specify a maximum of 5 subreddits.")
               ELSE errors
  /\ comment_filter' = IF comment_operator \in {"=", ">", ">=", "<", "<="}
                       THEN <<comment_operator, comment_value>>
                       ELSE <<>>
  /\ pc' = "button"
  /\ UNCHANGED <<inputs, normvars, warnings, posts, normalized_keywords,
                 target_subreddits, si, k, queries, origin, raised>>

\* if st.button("Fetch Posts") and keywords: the call of get_reddit_posts, down
\* to the loop over target_subreddits.
FetchPosts ==
  /\ pc = "button"
  /\ clicked /\ keywords # <<>>
  /\ posts' = <<>>
  /\ normalized_keywords' =
       UNION {normalize_keyword(keywords[i]) : i \in 1..Len(keywords)}
  /\ target_subreddits' =
       IF selected_subreddits # <<>> THEN selected_subreddits ELSE <<"all">>
  /\ si' = 1
  /\ pc' = "for_sub"
  /\ UNCHANGED <<inputs, normvars, keywords, selected_subreddits, comment_filter,
                 errors, warnings, k, queries, origin, raised>>

\* The button not pressed, or no keyword: the script ends without a fetch.
NoFetch ==
  /\ pc = "button"
  /\ ~(clicked /\ keywords # <<>>)
  /\ pc' = "idle"
  /\ UNCHANGED <<inputs, normvars, keywords, selected_subreddits, comment_filter,
                 errors, warnings, posts, normalized_keywords, target_subreddits,
                 si, k, queries, origin, raised>>

\* ------------------------------------------------------- get_reddit_posts

\* search_results of the current subreddit
Listing == IF si \in 1..Len(api) THEN api[si] ELSE <<>>

\* `submission`
Item == ItemAt(Listing, k)

\* start_date and end_date as the script passes them
StartArg == combine_min(start_date)
EndArg == combine_max(end_date)

\* The submission passes the four filters (no `continue` is taken).
Passes(submission) ==
  /\ in_date_range(utcfromtimestamp(submission.created_utc), StartArg, EndArg)
  /\ is_internal_link(submission)
  /\ match_keyword_variants(combined_text(submission), normalized_keywords)
  /\ comment_pass(comment_filter, submission.num_comments)

\* The handler with the whole call given up after the warning.
ExceptAbort ==
  /\ warnings' = Append(warnings, target_subreddits[si])
  /\ si' = Len(target_subreddits) + 1
  /\ k' = 0
  /\ pc' = "for_sub"

\* except Exception as e: st.warning(...); on to the next subreddit
Except ==
  /\ warnings' = Append(warnings, target_subreddits[si])
  /\ si' = si + 1
  /\ k' = 0
  /\ pc' = "for_sub"

\* for sub in target_subreddits: reddit.subreddit(sub).search(...)
Query ==
  /\ pc = "for_sub"
  /\ si <= Len(target_subreddits)
  /\ queries' = Append(queries, target_subreddits[si])
  /\ k' = 1
  /\ pc' = "for_submission"
  /\ UNCHANGED <<inputs, normvars, keywords, selected_subreddits, comment_filter,
                 errors, warnings, posts, normalized_keywords, target_subreddits,
                 si, origin, raised>>

\* search_results has no further submission
Exhausted ==
  /\ pc = "for_submission"
  /\ k > RunsLen(Listing)
  /\ si' = si + 1
  /\ k' = 0
  /\ pc' = "for_sub"
  /\ UNCHANGED <<inputs, normvars, keywords, selected_subreddits, comment_filter,
                 errors, warnings, posts, normalized_keywords, target_subreddits,
                 queries, origin, raised>>

\* the API raises while the listing is enumerated
FetchError ==
  /\ pc = "for_submission"
  /\ k <= RunsLen(Listing)
  /\ Item.kind = "error"
  /\ raised' = Append(raised, [si |-> si, k |-> k, kind |-> "fetch"])
  /\ Except
  /\ UNCHANGED <<inputs, normvars, keywords, selected_subreddits, comment_filter,
                 errors, posts, normalized_keywords, target_subreddits, queries,
                 origin>>

\* datetime.utcfromtimestamp(None) raises TypeError
PostError ==
  /\ pc = "for_submission"
  /\ k <= RunsLen(Listing)
  /\ Item.kind = "post"
  /\ Item.c.created_utc = None
  /\ raised' = Append(raised, [si |-> si, k |-> k, kind |-> "post"])
  /\ Except
  /\ UNCHANGED <<inputs, normvars, keywords, selected_subreddits, comment_filter,
                 errors, posts, normalized_keywords, target_subreddits, queries,
                 origin>>

\* one of the `continue` lines
Skip ==
  /\ pc = "for_submission"
  /\ k <= RunsLen(Listing)
  /\ Item.kind = "post"
  /\ Item.c.created_utc # None
  /\ ~Passes(Item.c)
  /\ k' = k + 1
  /\ UNCHANGED <<inputs, normvars, pc, keywords, selected_subreddits,
                 comment_filter, errors, warnings, posts, normalized_keywords,
                 target_subreddits, si, queries, origin, raised>>

\* posts.append({...}); if len(posts) >= 100: break
AppendPost ==
  /\ pc = "for_submission"
  /\ k <= RunsLen(Listing)
  /\ Item.kind = "post"
  /\ Item.c.created_utc # None
  /\ Passes(Item.c)
  /\ posts' = Append(posts, make_post(Item.c, utcfromtimestamp(Item.c.created_utc)))
  /\ origin' = Append(origin, <<si, k>>)
  /\ IF Len(posts) + 1 >= Cap
     THEN si' = si + 1 /\ k' = 0 /\ pc' = "for_sub"
     ELSE si' = si /\ k' = k + 1 /\ pc' = pc
  /\ UNCHANGED <<inputs, normvars, keywords, selected_subreddits, comment_filter,
                 errors, warnings, normalized_keywords, target_subreddits, queries,
                 raised>>

\* return posts
Return ==
  /\ pc = "for_sub"
  /\ si > Len(target_subreddits)
  /\ pc' = "done"
  /\ UNCHANGED <<inputs, normvars, keywords, selected_subreddits, comment_filter,
                 errors, warnings, posts, normalized_keywords, target_subreddits,
                 si, k, queries, origin, raised>>

Next ==
  \/ Script
  \/ FetchPosts
  \/ NoFetch
  \/ Query
  \/ Exhausted
  \/ FetchError
  \/ PostError
  \/ Skip
  \/ AppendPost
  \/ Return

Spec == Init /\ [][Next]_vars

\* ------------------------------------- normalize_keyword called on its own

Alphabet == {"a", "A", " ", "-"}

Words == UNION {[1..n -> Alphabet] : n \in 0..MaxLen}

InitNorm ==
  /\ word \in Words
  /\ variations = {}
  /\ npc = "call"
  /\ keyword_input = <<>>
  /\ sub_input = <<>>
  /\ start_date = 1
  /\ end_date = 1
  /\ comment_operator = ""
  /\ comment_value = 0
  /\ clicked = FALSE
  /\ api = <<>>
  /\ pc = "off"
  /\ keywords = <<>>
  /\ selected_subreddits = <<>>
  /\ comment_filter = <<>>
  /\ errors = <<>>
  /\ warnings = <<>>
  /\ posts = <<>>
  /\ normalized_keywords = {}
  /\ target_subreddits = <<>>
  /\ si = 0
  /\ k = 0
  /\ queries = <<>>
  /\ origin = <<>>
  /\ raised = <<>>

Normalize ==
  /\ npc = "call"
  /\ variations' = normalize_keyword(word)
  /\ npc' = "ret"
  /\ UNCHANGED <<inputs, word, pc, keywords, selected_subreddits, comment_filter,
                 errors, warnings, posts, normalized_keywords, target_subreddits,
                 si, k, queries, origin, raised>>

NextNorm == Normalize

SpecNorm == InitNorm /\ [][NextNorm]_vars

\* ---------------------------------------------------- notions of the claims

\* The submission behind posts[j].
SourceOf(j) == ItemAt(api[origin[j][1]], origin[j][2]).c

\* The host of a URL: what lies between "//" and the next "/".
HostOf(url) ==
  LET starts == {i \in 1..(Len(url) - 1) : url[i] = "/" /\ url[i + 1] = "/"}
      from == IF starts = {} THEN 1
              ELSE (CHOOSE i \in starts : \A j \in starts : i <= j) + 2
      ends == {i \in from..Len(url) : url[i] = "/"}
      to == IF ends = {} THEN Len(url)
            ELSE (CHOOSE i \in ends : \A j \in ends : i <= j) - 1
  IN SubSeq(url, from, to)

\* The URL points to the platform itself: reddit.com or a subdomain of it.
SamePlatform(url) ==
  LET h == HostOf(url) IN
  \/ h = RedditCom
  \/ /\ Len(h) > Len(RedditCom)
     /\ SubSeq(h, Len(h) - Len(RedditCom), Len(h)) = <<".">> \o RedditCom

\* comment_count <operator> threshold; no operator: every count passes.
CommentHolds(op, n, v) ==
  CASE op = "=" -> n = v
    [] op = ">" -> n > v
    [] op = ">=" -> n >= v
    [] op = "<" -> n < v
    [] op = "<=" -> n <= v
    [] OTHER -> TRUE

\* The loop is at a well-formed submission (no exception is raised on it).
AtSubmission ==
  /\ pc = "for_submission"
  /\ k <= RunsLen(Listing)
  /\ Item.kind = "post"
  /\ Item.c.created_utc # None

\* The loop is at a submission whose created_utc is missing.
AtMalformed ==
  /\ pc = "for_submission"
  /\ k <= RunsLen(Listing)
  /\ Item.kind = "post"
  /\ Item.c.created_utc = None

\* An exception was raised while subreddit number i was enumerated.
Failed(i) == \E r \in 1..Len(raised) : raised[r].si = i

\* The positions in posts of the posts that come from subreddit number i.
GotFrom(i) ==
  SelectSeq([j \in 1..Len(posts) |-> j], LAMBDA j : origin[j][1] = i)

\* The positions in listing number i of the submissions that pass every filter.
MatchingOf(i) ==
  SelectSeq([j \in 1..RunsLen(api[i]) |-> j],
            LAMBDA j : /\ ItemAt(api[i], j).kind = "post"
                       /\ ItemAt(api[i], j).c.created_utc # None
                       /\ Passes(ItemAt(api[i], j).c))

\* The posts from subreddit i are the first ones of its matching submissions.
GotIsPrefix(i) ==
  /\ Len(GotFrom(i)) <= Len(MatchingOf(i))
  /\ \A m \in 1..Len(GotFrom(i)) : origin[GotFrom(i)[m]][2] = MatchingOf(i)[m]

Count(seq, x) == Cardinality({j \in 1..Len(seq) : seq[j] = x})

\* ------------------------------------------------------------ the claims

\* C1 (as claimed): during and after a call of get_reddit_posts the result
\* list holds at most 100 posts.
C1_AtMostCap == Len(posts) <= Cap

\* C2 (as claimed): the result list never holds two posts with the same
\* permalink.
C2_NoDuplicatePermalink ==
  \A i, j \in 1..Len(posts) : i # j => posts[i].Permalink # posts[j].Permalink

\* C3 (as claimed): every post of the result satisfies all active criteria:
\* created within [start_date, end_date], a self-post or a link to the same
\* platform, a keyword variant in its stored title and body, and the comment
\* predicate when one is configured.
C3_ResultSatisfiesCriteria ==
  \A j \in 1..Len(posts) :
    LET c == SourceOf(j) IN
    /\ in_date_range(utcfromtimestamp(c.created_utc), StartArg, EndArg)
    /\ c.is_self \/ SamePlatform(c.url)
    /\ \E kw \in normalized_keywords :
         Contains(kw, Lower(posts[j].Title \o <<" ">> \o posts[j].Body))
    /\ CommentHolds(comment_operator, posts[j].Comments, comment_value)

\* C3 (remainder): apart from link posts whose URL holds reddit.com outside
\* its host and link posts matched on their body alone, every post of the
\* result satisfies all active criteria.
C3_CriteriaApartFromLinkPosts ==
  \A j \in 1..Len(posts) :
    LET c == SourceOf(j) IN
    (c.is_self \/ (SamePlatform(c.url) /\ (c.selftext = <<>> \/ c.title = TitleHit))) =>
      /\ in_date_range(utcfromtimestamp(c.created_utc), StartArg, EndArg)
      /\ \E kw \in normalized_keywords :
           Contains(kw, Lower(posts[j].Title \o <<" ">> \o posts[j].Body))
      /\ CommentHolds(comment_operator, posts[j].Comments, comment_value)

\* C4 (amended): when the query of a source-group raised, the call still
\* returns; every source-group of the list was queried exactly once, in order;
\* exactly one warning names each source-group that raised; and of every
\* source-group that did not raise, the matching posts are in the result, up
\* to the post at which the result reached 100 posts.
C4_FailureIsolated ==
  (pc = "done" /\ raised # <<>>) =>
    /\ queries = target_subreddits
    /\ Len(warnings) = Len(raised)
    /\ \A i \in 1..Len(target_subreddits) :
         /\ Failed(i) => Count(warnings, target_subreddits[i]) = 1
         /\ ~Failed(i) =>
              /\ GotIsPrefix(i)
              /\ \/ Len(GotFrom(i)) = Len(MatchingOf(i))
                 \/ /\ GotFrom(i) # <<>>
                    /\ GotFrom(i)[Len(GotFrom(i))] >= Cap

\* C4 (as claimed): ... and all the matching posts of the source-groups that
\* did not raise are in the returned result.
C4_AllMatchingReturned ==
  (pc = "done" /\ raised # <<>>) =>
    /\ queries = target_subreddits
    /\ Len(warnings) = Len(raised)
    /\ \A i \in 1..Len(target_subreddits) :
         /\ Failed(i) => Count(warnings, target_subreddits[i]) = 1
         /\ ~Failed(i) =>
              /\ GotIsPrefix(i)
              /\ Len(GotFrom(i)) = Len(MatchingOf(i))

\* C4 (witness): the first of several source-groups raised, one warning is
\* recorded, and a post of a later source-group is in the returned result.
C4_Witness ==
  /\ pc = "done"
  /\ Len(target_subreddits) >= 2
  /\ Len(raised) = 1 /\ raised[1].si = 1 /\ raised[1].kind = "fetch"
  /\ warnings = <<target_subreddits[1]>>
  /\ \E j \in 1..Len(posts) : origin[j][1] = 2

\* C5 (as claimed): a source-group whose query raised contributes no post to
\* the result.
C5_FailedGroupContributesNothing ==
  \A r \in 1..Len(raised) :
    raised[r].kind = "fetch" =>
      \A j \in 1..Len(posts) : origin[j][1] # raised[r].si

\* C6 (as claimed): a submission whose processing raises is dropped like a
\* filtered-out one: the loop goes on to the next submission of the same
\* source-group, with no warning and no change of the result.
C6_MalformedPostOnlyDropped ==
  [][AtMalformed =>
       /\ pc' = "for_submission"
       /\ si' = si
       /\ k' = k + 1
       /\ posts' = posts
       /\ warnings' = warnings]_vars

\* C7 (amended): with an empty keyword list no query is issued and no result
\* produced; with more than 5 source-groups one error is shown and only the
\* first 5 are kept and queried; with a start date after the end date the
\* queries are issued and the result stays empty.
C7_Validation ==
  /\ KeywordsOf(keyword_input) = <<>> => (queries = <<>> /\ posts = <<>>)
  /\ (Len(sub_input) > MaxSubs /\ pc # "script") =>
       /\ Len(errors) = 1
       /\ selected_subreddits = SubSeq(sub_input, 1, MaxSubs)
       /\ pc = "done" => queries = SubSeq(sub_input, 1, MaxSubs)
  /\ start_date > end_date =>
       /\ posts = <<>>
       /\ (pc = "done" /\ Len(sub_input) <= MaxSubs /\ sub_input # <<>>) =>
            queries = sub_input

\* C7 (as claimed): with more than 5 source-groups, an empty keyword list or
\* a start date after the end date, no query is issued and no result produced.
C7_InvalidRejected ==
  (Len(sub_input) > MaxSubs \/ KeywordsOf(keyword_input) = <<>>
     \/ start_date > end_date) =>
    (queries = <<>> /\ posts = <<>>)

\* C7 (witness): 6 source-groups and an inverted date range: the call has
\* returned, 5 queries were issued, the result is empty.
C7_Witness ==
  /\ pc = "done"
  /\ Len(sub_input) > MaxSubs
  /\ start_date > end_date
  /\ Len(queries) = MaxSubs
  /\ posts = <<>>

\* C8 (amended): normalize_keyword(w) is the empty set when w is empty or
\* only whitespace; otherwise it is a non-empty set that contains w
\* lower-cased and trimmed.
C8_NormalizeContainsTrimmed ==
  npc = "ret" =>
    /\ Strip(word) = <<>> => variations = {}
    /\ Strip(word) # <<>> => (variations # {} /\ Strip(Lower(word)) \in variations)

\* C8 (as claimed): normalize_keyword(w) is the empty set when w is empty, and
\* for every non-empty w a non-empty set that contains w lower-cased.
C8_NormalizeContainsLowered ==
  npc = "ret" =>
    /\ word = <<>> => variations = {}
    /\ word # <<>> => (variations # {} /\ Lower(word) \in variations)

\* C8 (witness): a padded upper-case word was normalised to a set holding its
\* trimmed lower-case form.
C8_Witness ==
  /\ npc = "ret"
  /\ word = <<" ", "A">>
  /\ <<"a">> \in variations

\* C9: a well-formed submission that passes the date, link and keyword
\* filters is appended exactly when comment_count <operator> threshold holds
\* for the operator and threshold entered; with no operator it is appended
\* whatever its comment count.
C9_CommentFilter ==
  [][(/\ AtSubmission
      /\ in_date_range(utcfromtimestamp(Item.c.created_utc), StartArg, EndArg)
      /\ is_internal_link(Item.c)
      /\ match_keyword_variants(combined_text(Item.c), normalized_keywords))
     => ((Len(posts') = Len(posts) + 1)
           <=> CommentHolds(comment_operator, Item.c.num_comments, comment_value))]_vars

\* C9 (witness): under ">=" with threshold 0 a post with exactly 0 comments is
\* in the returned result.
C9_Witness ==
  /\ pc = "done"
  /\ comment_operator = ">="
  /\ comment_value = 0
  /\ Len(posts) = 1
  /\ posts[1].Comments = comment_value

====
